---- MODULE Spec2Model ----
(***************************************************************************)
(* nvstat: the layout and rendering engine of src/nvstat.py.               *)
(*                                                                         *)
(* Strings are sequences of characters, one element per Python code point. *)
(* Glyphs outside ASCII carry a name: "ESC" is \033, "VBAR" is the light   *)
(* vertical bar, "FULL" and "EMPTY" are the filled and the empty block,    *)
(* "HLINE" the light horizontal line, "TL" "TR" "BL" "BR" the light        *)
(* corners, "DHLINE" "DVBAR" "DTL" "DTR" "DBL" "DBR" the double ones and   *)
(* "DEG" the degree sign.                                                  *)
(*                                                                         *)
(* Python floats are modelled as exact rationals [n |-> Int, d |-> Nat>0]: *)
(* the rounding of binary floating point is not modelled.                  *)
(***************************************************************************)
EXTENDS Integers, Sequences, FiniteSets, TLC

VARIABLES
    gpus,      \* main: the value get_gpu_stats() returned for this frame
    pc,        \* position of the main loop inside draw_ui
    sec,       \* draw_ui: the per-device section being printed (1..4)
    i,         \* draw_ui: index of the sample the section's loop is at
    layout,    \* draw_ui: term_width, width, label_width, bar_width, gauge_width
    totals,    \* draw_ui: the aggregates of lines 267-272
    out,       \* stdout of this call of draw_ui: one summary record per line
    printed,   \* stdout: the full text of the lines the last step printed
    fn,        \* direct call: the function under call
    args,      \* direct call: its arguments
    ret        \* direct call: its result

vars == <<gpus, pc, sec, i, layout, totals, out, printed, fn, args, ret>>

frameVars == <<gpus, pc, sec, i, layout, totals, out, printed>>
callVars == <<fn, args, ret>>

----------------------------------------------------------------------------
(* Program constants *)

MIN_WIDTH == 80
PREFERRED_WIDTH == 160

----------------------------------------------------------------------------
(* Bounds of the model *)

MaxGpus == 2          \* longest sample list
MaxPct == 100         \* get_color is called directly with 0..MaxPct
MaxContentLen == 3    \* longest raw content handed to make_row directly
MaxRowWidth == 8      \* widest frame handed to make_row directly
MaxBarWidth == 6      \* widest bar asked of the renderers directly
MinCols == 78         \* narrowest terminal reported
ColStep == 8          \* spacing of the terminal widths between the clamps
MaxCols == 162        \* widest terminal reported

----------------------------------------------------------------------------
(* Exact rational arithmetic standing for Python float arithmetic *)

Rat(n, d) == [n |-> n, d |-> d]
R(k) == Rat(k, 1)
RLt(a, b) == a.n * b.d < b.n * a.d
RGt(a, b) == a.n * b.d > b.n * a.d
REq(a, b) == a.n * b.d = b.n * a.d
RAdd(a, b) == Rat(a.n * b.d + b.n * a.d, a.d * b.d)
RMul(a, b) == Rat(a.n * b.n, a.d * b.d)
Abs(k) == IF k < 0 THEN -k ELSE k

\* Python's a / b: ZeroDivisionError when b is zero.
Divide(a, b) ==
    IF b.n = 0
    THEN [raised |-> TRUE, val |-> R(0)]
    ELSE [raised |-> FALSE,
          val |-> IF b.n > 0 THEN Rat(a.n * b.d, a.d * b.n)
                             ELSE Rat(-(a.n * b.d), a.d * (-b.n))]

\* Python's int(x): truncation toward zero.
Trunc(a) == IF a.n >= 0 THEN a.n \div a.d ELSE -((-a.n) \div a.d)

\* Python's min(100, x): x when x < 100, else 100.
Min100(x) == IF RLt(x, R(100)) THEN x ELSE R(100)

MaxOf(a, b) == IF a >= b THEN a ELSE b
MinOf(a, b) == IF a <= b THEN a ELSE b

----------------------------------------------------------------------------
(* Strings *)

\* Python's c * k: the empty string when k <= 0.
Rep(c, k) == IF k > 0 THEN [j \in 1..k |-> c] ELSE <<>>

\* Python's format spec {s:<w} and {s:>w}.
PadRight(s, w) == s \o Rep(" ", w - Len(s))
PadLeft(s, w) == Rep(" ", w - Len(s)) \o s

DigitChars == <<"0", "1", "2", "3", "4", "5", "6", "7", "8", "9">>

RECURSIVE Digits(_)
Digits(k) ==
    IF k < 10 THEN <<DigitChars[k + 1]>>
    ELSE Digits(k \div 10) \o <<DigitChars[(k % 10) + 1]>>

Pow10(e) == IF e = 0 THEN 1 ELSE IF e = 1 THEN 10 ELSE 100

\* Python's f"{v:.<dec>f}" for dec in 0..2: round half to even on the exact
\* value, a sign for negative values, dec digits after the point.
FormatFixed(v, dec) ==
    LET num == Abs(v.n) * Pow10(dec)
        q == num \div v.d
        r == num % v.d
        scaled == IF 2 * r > v.d \/ (2 * r = v.d /\ q % 2 = 1) THEN q + 1 ELSE q
        ip == scaled \div Pow10(dec)
        fp == scaled % Pow10(dec)
        frac == IF dec = 0 THEN <<>>
                ELSE <<".">> \o Rep("0", dec - Len(Digits(fp))) \o Digits(fp)
    IN (IF v.n < 0 THEN <<"-">> ELSE <<>>) \o Digits(ip) \o frac

----------------------------------------------------------------------------
(* ANSI escape sequences *)

RESET == <<"ESC", "[", "0", "m">>
BOLD == <<"ESC", "[", "1", "m">>
DIM == <<"ESC", "[", "2", "m">>
RED == <<"ESC", "[", "9", "1", "m">>
YELLOW == <<"ESC", "[", "9", "3", "m">>
GREEN == <<"ESC", "[", "9", "2", "m">>
CYAN == <<"ESC", "[", "9", "6", "m">>

\* The characters the class [0-9;] of make_row's pattern accepts.
ParamChars == {"0", "1", "2", "3", "4", "5", "6", "7", "8", "9", ";"}

RECURSIVE ParamRun(_, _)
\* Length of the longest run of [0-9;] in s from position k on.
ParamRun(s, k) ==
    IF k <= Len(s) /\ s[k] \in ParamChars THEN 1 + ParamRun(s, k + 1) ELSE 0

\* Length of the match of \033\[[0-9;]*m at position k of s, 0 when none.
MatchAt(s, k) ==
    IF k + 1 <= Len(s) /\ s[k] = "ESC" /\ s[k + 1] = "["
    THEN LET run == ParamRun(s, k + 2)
             e == k + 2 + run
         IN IF e <= Len(s) /\ s[e] = "m" THEN e - k + 1 ELSE 0
    ELSE 0

RECURSIVE Scan(_, _, _)
\* The left-to-right scan of positions lo..hi of s, entered at lo outside any
\* match: the characters kept and the position the scan has reached. The
\* range is halved so that the recursion stays shallow; the scan of the right
\* half starts where the scan of the left half ended.
Scan(s, lo, hi) ==
    IF lo > hi THEN [text |-> <<>>, next |-> lo]
    ELSE IF lo = hi
    THEN LET m == MatchAt(s, lo)
         IN IF m > 0 THEN [text |-> <<>>, next |-> lo + m]
            ELSE [text |-> <<s[lo]>>, next |-> lo + 1]
    ELSE LET mid == (lo + hi) \div 2
             a == Scan(s, lo, mid)
             b == Scan(s, a.next, hi)
         IN [text |-> a.text \o b.text, next |-> b.next]

\* re.sub(r'\033\[[0-9;]*m', '', s): one left-to-right pass.
StripAnsi(s) == Scan(s, 1, Len(s)).text

VisibleLen(s) == Len(StripAnsi(s))

----------------------------------------------------------------------------
(* get_color *)

\* get_color with the invert flag ignored.
get_color_no_invert(percentage, invert) ==
    IF RGt(percentage, R(90)) THEN RED
    ELSE IF RGt(percentage, R(70)) THEN YELLOW
    ELSE GREEN

\* get_color with >= in place of >.
get_color_inclusive(percentage, invert) ==
    IF invert
    THEN IF ~RLt(percentage, R(80)) THEN RED
         ELSE IF ~RLt(percentage, R(60)) THEN YELLOW
         ELSE GREEN
    ELSE IF ~RLt(percentage, R(90)) THEN RED
         ELSE IF ~RLt(percentage, R(70)) THEN YELLOW
         ELSE GREEN

get_color(percentage, invert) ==
    IF invert
    THEN IF RGt(percentage, R(80)) THEN RED
         ELSE IF RGt(percentage, R(60)) THEN YELLOW
         ELSE GREEN
    ELSE IF RGt(percentage, R(90)) THEN RED
         ELSE IF RGt(percentage, R(70)) THEN YELLOW
         ELSE GREEN

----------------------------------------------------------------------------
(* make_row, with the default borders *)

\* make_row measuring the raw content, escape sequences included.
make_row_raw_len(content, width) ==
    LET padding == width - Len(content) - 2
    IN <<"VBAR">> \o content \o Rep(" ", IF padding < 0 THEN 0 ELSE padding)
       \o <<"VBAR">>

make_row(content, width) ==
    LET left == <<"VBAR">>
        right == <<"VBAR">>
        visible == StripAnsi(content)
        padding == width - Len(visible) - Len(left) - Len(right)
    IN left \o content \o Rep(" ", IF padding < 0 THEN 0 ELSE padding) \o right

----------------------------------------------------------------------------
(* format_memory *)

format_memory(mb) ==
    IF RLt(mb, R(1024))
    THEN FormatFixed(mb, 0) \o <<"M", "B">>
    ELSE FormatFixed(Rat(mb.n, mb.d * 1024), 2) \o <<"G", "B">>

----------------------------------------------------------------------------
(* Section borders *)

draw_section_header(title, width, bold, reset) ==
    LET inner_width == width - 2
        title_part == <<"HLINE", " ">> \o title \o <<" ">>
        remaining == inner_width - Len(title_part)
    IN bold \o <<"TL">> \o title_part \o Rep("HLINE", remaining) \o <<"TR">> \o reset

draw_section_footer(width, bold, reset) ==
    LET inner_width == width - 2
    IN bold \o <<"BL">> \o Rep("HLINE", inner_width) \o <<"BR">> \o reset

----------------------------------------------------------------------------
(* The percentage and the bar: the same code in draw_bar_row (133-139),    *)
(* draw_mem_bar_row (157-163), draw_power_bar_row (177-183) and            *)
(* draw_gauge_section (198-204).                                           *)

\* The percentage without the test for a zero maximum.
percentage_of_unguarded(value, max_value) ==
    LET q == Divide(value, max_value)
    IN [raised |-> q.raised, val |-> Min100(RMul(q.val, R(100)))]

percentage_of(value, max_value) ==
    IF max_value.n = 0
    THEN [raised |-> FALSE, val |-> R(0)]
    ELSE LET q == Divide(value, max_value)
         IN [raised |-> q.raised, val |-> Min100(RMul(q.val, R(100)))]

bar_of(bar_width, percentage) ==
    LET filled == Trunc(Rat(bar_width * percentage.n, percentage.d * 100))
    IN Rep("FULL", filled) \o Rep("EMPTY", bar_width - filled)

\* A result of a renderer: the text, or the exception that left it.
Returned(text) == [raised |-> FALSE, val |-> text]
Raised == [raised |-> TRUE, val |-> <<>>]

----------------------------------------------------------------------------
(* draw_bar_row: color_func is "get_color" or "None" *)

draw_bar_row(label, value, max_value, unit, width, label_width, bar_width, color_func, invert) ==
    LET p == percentage_of(value, max_value)
        percentage == p.val
        bar == bar_of(bar_width, percentage)
        color == IF color_func = "get_color" THEN get_color(percentage, invert)
                 ELSE CYAN
        value_str == FormatFixed(value, 1) \o (IF unit # <<>> THEN unit ELSE <<"%">>)
        content == <<" ">> \o PadRight(label, label_width) \o <<" ">> \o color
                   \o <<"VBAR">> \o bar \o <<"VBAR">> \o RESET \o <<" ">>
                   \o PadLeft(value_str, 10)
    IN IF p.raised THEN Raised ELSE Returned(make_row(content, width))

----------------------------------------------------------------------------
(* draw_mem_bar_row *)

draw_mem_bar_row(label, used, total, width, label_width, bar_width) ==
    LET p == percentage_of(used, total)
        percentage == p.val
        bar == bar_of(bar_width, percentage)
        color == get_color(percentage, FALSE)
        mem_str == format_memory(used) \o <<"/">> \o format_memory(total)
        content == <<" ">> \o PadRight(label, label_width) \o <<" ">> \o color
                   \o <<"VBAR">> \o bar \o <<"VBAR">> \o RESET \o <<" ">>
                   \o PadLeft(mem_str, 16)
    IN IF p.raised THEN Raised ELSE Returned(make_row(content, width))

----------------------------------------------------------------------------
(* draw_power_bar_row *)

draw_power_bar_row(label, power_draw, power_limit, width, label_width, bar_width) ==
    LET p == percentage_of(power_draw, power_limit)
        percentage == p.val
        bar == bar_of(bar_width, percentage)
        color == get_color(percentage, FALSE)
        power_str == FormatFixed(power_draw, 0) \o <<"W", "/">>
                     \o FormatFixed(power_limit, 0) \o <<"W">>
        content == <<" ">> \o PadRight(label, label_width) \o <<" ">> \o color
                   \o <<"VBAR">> \o bar \o <<"VBAR">> \o RESET \o <<" ">>
                   \o PadLeft(power_str, 16)
    IN IF p.raised THEN Raised ELSE Returned(make_row(content, width))

----------------------------------------------------------------------------
(* draw_gauge_section: returns the four lines of the gauge *)

draw_gauge_section(title, value, max_value, unit, width, gauge_width, color_func, invert, extra_info) ==
    LET p == percentage_of(value, max_value)
        percentage == p.val
        gauge_bar == bar_of(gauge_width, percentage)
        color == IF color_func = "get_color" THEN get_color(percentage, invert)
                 ELSE CYAN
        top == <<"DTL">> \o Rep("DHLINE", gauge_width) \o <<"DTR">>
        middle == <<"DVBAR">> \o gauge_bar \o <<"DVBAR">>
        bottom == <<"DBL">> \o Rep("DHLINE", gauge_width) \o <<"DBR">>
        value_str0 == IF unit # <<>> THEN FormatFixed(value, 1) \o unit
                      ELSE FormatFixed(percentage, 1) \o <<"%">>
        value_str == IF extra_info # <<>>
                     THEN value_str0 \o <<" ", " ">> \o extra_info
                     ELSE value_str0
        lines == << make_row(<<" ", " ">> \o BOLD \o title \o RESET, width),
                    make_row(Rep(" ", 4) \o top, width),
                    make_row(Rep(" ", 4) \o color \o middle \o RESET
                             \o <<" ", " ">> \o value_str, width),
                    make_row(Rep(" ", 4) \o bottom, width) >>
    IN IF p.raised THEN Raised ELSE Returned(lines)

----------------------------------------------------------------------------
(* get_terminal_size and the layout of draw_ui *)

\* shutil.get_terminal_size() reports columns, or raises: the fallback.
\* The height is shown in the title only and is left out.
get_terminal_size(columns, failed) ==
    IF failed THEN PREFERRED_WIDTH ELSE MaxOf(MIN_WIDTH, columns)

frame_width_of(term_width) == MinOf(term_width, PREFERRED_WIDTH)

fixed_space == 2 + 2 + 2 + 18

label_width_of(width) == MinOf(50, (width - fixed_space) \div 3)

bar_width_of(width, label_width) ==
    MaxOf(20, width - fixed_space - label_width - 2)

gauge_width_of(width) == MinOf(50, (width - 20) \div 2)

layout_of(term_width) ==
    LET width == frame_width_of(term_width)
        label_width == label_width_of(width)
    IN [term_width |-> term_width,
        width |-> width,
        label_width |-> label_width,
        bar_width |-> bar_width_of(width, label_width),
        gauge_width |-> gauge_width_of(width)]

NoLayout ==
    [term_width |-> 0, width |-> 0, label_width |-> 0, bar_width |-> 0,
     gauge_width |-> 0]

----------------------------------------------------------------------------
(* Samples: what get_gpu_stats parses from one line of nvidia-smi *)

Letters == <<"a", "b", "c", "d", "e", "f", "g", "h", "i", "j", "k", "l", "m", "n", "o", "p", "q", "r", "s", "t", "u", "v", "w", "x", "y", "z">>

\* A device name of the given length.
NameOf(len) == [k \in 1..len |-> Letters[((k - 1) % 26) + 1]]

Reading(name_len, temp, mem_used, mem_total, util_gpu, power_draw, power_limit) ==
    [name |-> NameOf(name_len), temp |-> R(temp), mem_used |-> R(mem_used),
     mem_total |-> R(mem_total), util_gpu |-> R(util_gpu), util_mem |-> R(0),
     power_draw |-> R(power_draw), power_limit |-> R(power_limit)]

\* The readings a device may report: the two devices of the end-to-end
\* example, a device whose memory and power are unavailable ([N/A] parses to
\* 0) and whose temperature is malformed (negative), and a device above its
\* limits with the longest name.
Readings ==
    { Reading(4, 45, 1000, 8000, 10, 50, 150),
      Reading(12, 92, 7000, 8000, 95, 140, 150),
      Reading(11, -50, 0, 0, 71, 0, 0),
      Reading(40, 150, 24576, 24576, 100, 200, 150) }

WithIndex(reading, index) ==
    [index |-> index, name |-> reading.name, temp |-> reading.temp,
     mem_used |-> reading.mem_used, mem_total |-> reading.mem_total,
     util_gpu |-> reading.util_gpu, util_mem |-> reading.util_mem,
     power_draw |-> reading.power_draw, power_limit |-> reading.power_limit]

\* Sample lists of n devices, indexed 0..n-1 as nvidia-smi numbers them.
SampleLists(n) ==
    { [k \in 1..n |-> WithIndex(f[k], k - 1)] : f \in [1..n -> Readings] }

None == [none |-> TRUE, list |-> <<>>]
ListOf(l) == [none |-> FALSE, list |-> l]

\* get_gpu_stats returns None or a non-empty list (line 67).
GetGpuStatsResults ==
    {None} \cup { ListOf(l) : l \in UNION { SampleLists(n) : n \in 1..MaxGpus } }

\* "gpus is None" in place of "not gpus".
not_gpus_none_only(g) == g.none

\* Python's "not gpus": None or the empty list.
not_gpus(g) == g.none \/ Len(g.list) = 0

----------------------------------------------------------------------------
(* Labels *)

label_of(gpu) ==
    <<"G", "P", "U", " ">> \o Digits(gpu.index) \o <<":", " ">> \o gpu.name

\* The truncation cutting one character too many.
truncate_label_short(label, label_width) ==
    IF Len(label) > label_width
    THEN SubSeq(label, 1, label_width - 3) \o <<".", ".">>
    ELSE label

truncate_label(label, label_width) ==
    IF Len(label) > label_width
    THEN SubSeq(label, 1, label_width - 2) \o <<".", ".">>
    ELSE label

----------------------------------------------------------------------------
(* draw_ui: the aggregates *)

RECURSIVE SumOf(_, _)
\* Python's sum(gpu[field] for gpu in gpus).
SumOf(list, field) ==
    IF list = <<>> THEN R(0) ELSE RAdd(Head(list)[field], SumOf(Tail(list), field))

NoTotals ==
    [computed |-> FALSE, raised |-> FALSE,
     total_mem_used |-> R(0), total_mem_total |-> R(0),
     total_power_draw |-> R(0), total_power_limit |-> R(0),
     avg_util |-> R(0), avg_temp |-> R(0)]

calc_totals(list) ==
    LET avg_util == Divide(SumOf(list, "util_gpu"), R(Len(list)))
        avg_temp == Divide(SumOf(list, "temp"), R(Len(list)))
    IN [computed |-> TRUE, raised |-> avg_util.raised \/ avg_temp.raised,
        total_mem_used |-> SumOf(list, "mem_used"),
        total_mem_total |-> SumOf(list, "mem_total"),
        total_power_draw |-> SumOf(list, "power_draw"),
        total_power_limit |-> SumOf(list, "power_limit"),
        avg_util |-> avg_util.val, avg_temp |-> avg_temp.val]

----------------------------------------------------------------------------
(* draw_ui: the per-device sections, in the order of the code *)

\* The memory section printed before the utilization section.
SectionOrderSwapped == <<"temperature", "memory", "utilization", "power">>

SectionOrder == <<"temperature", "utilization", "memory", "power">>

section_title(section) ==
    CASE section = "temperature" ->
           <<"T", "E", "M", "P", "E", "R", "A", "T", "U", "R", "E">>
      [] section = "utilization" ->
           <<"G", "P", "U", " ", "U", "T", "I", "L", "I", "Z", "A", "T", "I", "O", "N">>
      [] section = "memory" ->
           <<"M", "E", "M", "O", "R", "Y", " ", "U", "S", "A", "G", "E">>
      [] section = "power" ->
           <<"P", "O", "W", "E", "R", " ", "U", "S", "A", "G", "E">>
      [] section = "totals" ->
           <<"T", "O", "T", "A", "L", "S">>

\* The body of the loop over gpus of the given section.
section_row(section, gpu, L) ==
    LET label == truncate_label(label_of(gpu), L.label_width)
    IN CASE section = "temperature" ->
              draw_bar_row(label, gpu.temp, R(100), <<"DEG", "C">>, L.width,
                           L.label_width, L.bar_width, "get_color", TRUE)
         [] section = "utilization" ->
              draw_bar_row(label, gpu.util_gpu, R(100), <<"%">>, L.width,
                           L.label_width, L.bar_width, "None", FALSE)
         [] section = "memory" ->
              draw_mem_bar_row(label, gpu.mem_used, gpu.mem_total, L.width,
                               L.label_width, L.bar_width)
         [] section = "power" ->
              LET power_max == IF RGt(gpu.power_limit, R(0))
                               THEN gpu.power_limit ELSE R(100)
              IN draw_power_bar_row(label, gpu.power_draw, power_max, L.width,
                                    L.label_width, L.bar_width)

----------------------------------------------------------------------------
(* draw_ui: the gauges of the totals section, in the order of the code *)

GaugeOrder == <<"vram", "util", "power", "temp">>

gauge_of(gauge, T, L) ==
    CASE gauge = "vram" ->
           LET mem_extra == <<"(">> \o format_memory(T.total_mem_used)
                            \o <<" ", "/", " ">>
                            \o format_memory(T.total_mem_total) \o <<")">>
           IN draw_gauge_section(
                  <<"T", "o", "t", "a", "l", " ", "V", "R", "A", "M">>,
                  T.total_mem_used, T.total_mem_total, <<>>, L.width,
                  L.gauge_width, "get_color", FALSE, mem_extra)
      [] gauge = "util" ->
           draw_gauge_section(
               <<"A", "v", "e", "r", "a", "g", "e", " ", "G", "P", "U", " ", "U", "t", "i", "l", "i", "z", "a", "t", "i", "o", "n">>,
               T.avg_util, R(100), <<"%">>, L.width, L.gauge_width,
               "None", FALSE, <<>>)
      [] gauge = "power" ->
           LET power_extra == <<"(">> \o FormatFixed(T.total_power_draw, 0)
                              \o <<"W", " ", "/", " ">>
                              \o FormatFixed(T.total_power_limit, 0)
                              \o <<"W", ")">>
           IN draw_gauge_section(
                  <<"T", "o", "t", "a", "l", " ", "P", "o", "w", "e", "r", " ", "D", "r", "a", "w">>,
                  T.total_power_draw, T.total_power_limit, <<"W">>, L.width,
                  L.gauge_width, "get_color", FALSE, power_extra)
      [] gauge = "temp" ->
           draw_gauge_section(
               <<"A", "v", "e", "r", "a", "g", "e", " ", "T", "e", "m", "p", "e", "r", "a", "t", "u", "r", "e">>,
               T.avg_temp, R(100), <<"DEG", "C">>, L.width, L.gauge_width,
               "get_color", TRUE, <<>>)

----------------------------------------------------------------------------
(* Printed lines *)

\* The summary of a printed line: its kind, the section or gauge it belongs
\* to ("" when none) and the index of the device it shows (-1 when none).
Line(kind, part, dev) == [kind |-> kind, part |-> part, dev |-> dev]

Text(line, text) == [line |-> line, text |-> text]

\* The title line (with its timestamp), the notice and the exit hint are
\* kept as one token each.
Blank == Text(Line("blank", "", -1), <<>>)
Rule(width) == Text(Line("banner", "", -1), Rep("DHLINE", width))
BoldRule(width) == Text(Line("banner", "", -1), BOLD \o Rep("DHLINE", width) \o RESET)
Title == Text(Line("title", "", -1), <<"TITLE">>)
Notice == Text(Line("notice", "", -1), <<"NOTICE">>)
Hint == Text(Line("hint", "", -1), DIM \o <<"HINT">> \o RESET)

Summaries(texts) == [k \in 1..Len(texts) |-> texts[k].line]

----------------------------------------------------------------------------
(* The main loop (lines 372-375) and the steps of draw_ui *)

\* The columns the terminal reports: around MIN_WIDTH (every residue of the
\* division by 3 of the label width), every ColStep-th width in between, and
\* around PREFERRED_WIDTH.
TermCols ==
    (MinCols..(MIN_WIDTH + 3))
    \cup { c \in MinCols..MaxCols : c % ColStep = 0 }
    \cup ((PREFERRED_WIDTH - 1)..MaxCols)

\* main, line 373: gpus = get_gpu_stats(), then draw_ui(gpus) is entered.
Poll ==
    /\ pc = "idle"
    /\ gpus' \in GetGpuStatsResults
    /\ pc' = "draw_ui"
    /\ UNCHANGED <<sec, i, layout, totals, out, printed>>
    /\ UNCHANGED callVars

\* draw_ui called with the empty list, which get_gpu_stats never returns.
CallDrawUiEmpty ==
    /\ pc = "idle"
    /\ gpus' = ListOf(<<>>)
    /\ pc' = "draw_ui"
    /\ UNCHANGED <<sec, i, layout, totals, out, printed>>
    /\ UNCHANGED callVars

\* draw_ui, lines 230-259: terminal size, clear_screen, layout, banner.
Banner ==
    /\ pc = "draw_ui"
    /\ \E columns \in TermCols, failed \in BOOLEAN :
         layout' = layout_of(get_terminal_size(columns, failed))
    /\ printed' = <<BoldRule(layout'.width), Title, Rule(layout'.width)>>
    /\ out' = Summaries(printed')
    /\ totals' = NoTotals
    /\ sec' = 0
    /\ i' = 0
    /\ pc' = "check"
    /\ UNCHANGED gpus
    /\ UNCHANGED callVars

\* draw_ui, lines 261-264.
NoGpus ==
    /\ pc = "check"
    /\ not_gpus(gpus)
    /\ printed' = <<Blank, Notice, Blank, Rule(layout.width)>>
    /\ out' = out \o Summaries(printed')
    /\ pc' = "done"
    /\ UNCHANGED <<gpus, sec, i, layout, totals>>
    /\ UNCHANGED callVars

\* draw_ui, lines 266-272. A ZeroDivisionError leaves draw_ui and main.
CalcTotals ==
    /\ pc = "check"
    /\ ~not_gpus(gpus)
    /\ totals' = calc_totals(gpus.list)
    /\ pc' = IF totals'.raised THEN "raised" ELSE "section"
    /\ sec' = 1
    /\ printed' = <<>>
    /\ UNCHANGED <<gpus, i, layout, out>>
    /\ UNCHANGED callVars

\* draw_ui, lines 277-278, 289-290, 301-302, 313-314.
SectionHeader ==
    /\ pc = "section"
    /\ printed' = <<Blank,
                    Text(Line("header", SectionOrder[sec], -1),
                         draw_section_header(section_title(SectionOrder[sec]),
                                             layout.width, BOLD, RESET))>>
    /\ out' = out \o Summaries(printed')
    /\ i' = 1
    /\ pc' = "rows"
    /\ UNCHANGED <<gpus, sec, layout, totals>>
    /\ UNCHANGED callVars

\* draw_ui, one turn of the loops of lines 279-283, 291-295, 303-307, 315-320.
SectionRow ==
    /\ pc = "rows"
    /\ i <= Len(gpus.list)
    /\ LET gpu == gpus.list[i]
           row == section_row(SectionOrder[sec], gpu, layout)
       IN /\ printed' = <<Text(Line("row", SectionOrder[sec], gpu.index), row.val)>>
          /\ pc' = IF row.raised THEN "raised" ELSE "rows"
    /\ out' = out \o Summaries(printed')
    /\ i' = i + 1
    /\ UNCHANGED <<gpus, sec, layout, totals>>
    /\ UNCHANGED callVars

\* draw_ui, lines 284, 296, 308, 321.
SectionFooter ==
    /\ pc = "rows"
    /\ i > Len(gpus.list)
    /\ printed' = <<Text(Line("footer", SectionOrder[sec], -1),
                         draw_section_footer(layout.width, BOLD, RESET))>>
    /\ out' = out \o Summaries(printed')
    /\ IF sec < Len(SectionOrder)
       THEN sec' = sec + 1 /\ pc' = "section"
       ELSE sec' = 0 /\ pc' = "totals"
    /\ UNCHANGED <<gpus, i, layout, totals>>
    /\ UNCHANGED callVars

\* draw_ui, lines 326-328.
TotalsHeader ==
    /\ pc = "totals"
    /\ printed' = <<Blank,
                    Text(Line("header", "totals", -1),
                         draw_section_header(section_title("totals"),
                                             layout.width, BOLD, RESET)),
                    Text(Line("spacer", "totals", -1), make_row(<<>>, layout.width))>>
    /\ out' = out \o Summaries(printed')
    /\ i' = 1
    /\ pc' = "gauges"
    /\ UNCHANGED <<gpus, sec, layout, totals>>
    /\ UNCHANGED callVars

GaugeParts == <<"gauge_title", "gauge_top", "gauge_bar", "gauge_bottom">>

\* draw_ui, lines 330-334, 336-339, 341-345, 347-350: one gauge and the
\* empty row after it.
Gauge ==
    /\ pc = "gauges"
    /\ i <= Len(GaugeOrder)
    /\ LET g == gauge_of(GaugeOrder[i], totals, layout)
       IN /\ printed' =
                IF g.raised THEN <<>>
                ELSE [k \in 1..4 |-> Text(Line(GaugeParts[k], GaugeOrder[i], -1), g.val[k])]
                     \o <<Text(Line("spacer", "totals", -1), make_row(<<>>, layout.width))>>
          /\ pc' = IF g.raised THEN "raised" ELSE "gauges"
    /\ out' = out \o Summaries(printed')
    /\ i' = i + 1
    /\ UNCHANGED <<gpus, sec, layout, totals>>
    /\ UNCHANGED callVars

\* draw_ui, lines 352-358.
Footer ==
    /\ pc = "gauges"
    /\ i > Len(GaugeOrder)
    /\ printed' = <<Text(Line("footer", "totals", -1),
                         draw_section_footer(layout.width, BOLD, RESET)),
                    Blank, Rule(layout.width), Hint, Rule(layout.width)>>
    /\ out' = out \o Summaries(printed')
    /\ pc' = "done"
    /\ UNCHANGED <<gpus, sec, i, layout, totals>>
    /\ UNCHANGED callVars

\* main, line 375: draw_ui has returned and its locals are gone;
\* time.sleep(poll_interval), then the loop starts over. out and printed hold
\* the output of one call of draw_ui and start empty for the next.
Sleep ==
    /\ pc = "done"
    /\ pc' = "idle"
    /\ sec' = 0
    /\ i' = 0
    /\ layout' = NoLayout
    /\ totals' = NoTotals
    /\ out' = <<>>
    /\ printed' = <<>>
    /\ UNCHANGED gpus
    /\ UNCHANGED callVars

FrameInit ==
    /\ gpus = None
    /\ pc = "idle"
    /\ sec = 0
    /\ i = 0
    /\ layout = NoLayout
    /\ totals = NoTotals
    /\ out = <<>>
    /\ printed = <<>>

FrameNext ==
    \/ Poll
    \/ CallDrawUiEmpty
    \/ Banner
    \/ NoGpus
    \/ CalcTotals
    \/ SectionHeader
    \/ SectionRow
    \/ SectionFooter
    \/ TotalsHeader
    \/ Gauge
    \/ Footer
    \/ Sleep

----------------------------------------------------------------------------
(* Direct calls of the functions, with arguments drawn from bounded sets *)

NotCalled == [called |-> FALSE, raised |-> FALSE, val |-> <<>>]
Called(r) == [called |-> TRUE, raised |-> r.raised, val |-> r.val]

\* Percentages in steps of one half.
Percentages == { Rat(k, 2) : k \in 0..(2 * MaxPct) }

\* Raw contents: every string over these characters up to MaxContentLen.
ContentChars == {"a", "ESC", "[", "9", ";", "m"}
RawContents == UNION { [1..k -> ContentChars] : k \in 0..MaxContentLen }

\* Coloured contents: a visible text with colour and reset codes of
\* differing lengths before and after it.
Codes ==
    { <<>>, RESET, RED, <<"ESC", "[", "m">>,
      <<"ESC", "[", "1", ";", "9", "1", "m">>,
      BOLD \o RED \o RESET \o <<"ESC", "[", "m">> \o DIM }
VisibleTexts == { <<>>, <<"a">>, <<"a", "b">>, <<"a", "b", "c", "d", "e", "f", "g">> }
ColouredContents ==
    { pre \o text \o post : pre \in Codes, text \in VisibleTexts, post \in Codes }

Values == { R(-50), R(0), R(45), R(100), R(150) }
MaxValues == { R(0), R(100), R(150) }
BarWidths == 1..MaxBarWidth
Units == { <<"DEG", "C">>, <<"%">>, <<>> }
ColorFuncs == { "get_color", "None" }

\* The label and the label width of the direct calls of the renderers.
CallLabel == <<"G", "P", "U">>
CallLabelWidth == Len(CallLabel) + 1
CallWidth(bar_width) == CallLabelWidth + bar_width + fixed_space + 2

CallInit ==
    /\ ret = NotCalled
    /\ \/ /\ fn = "get_color"
          /\ args \in [percentage : Percentages, invert : BOOLEAN]
       \/ /\ fn = "make_row"
          /\ args \in [content : RawContents \cup ColouredContents,
                       width : 0..MaxRowWidth]
       \/ /\ fn = "draw_bar_row"
          /\ args \in [value : Values, max_value : MaxValues, unit : Units,
                       bar_width : BarWidths, color_func : ColorFuncs,
                       invert : BOOLEAN]
       \/ /\ fn \in {"draw_mem_bar_row", "draw_power_bar_row"}
          /\ args \in [value : Values, max_value : MaxValues, bar_width : BarWidths]
       \/ /\ fn = "draw_gauge_section"
          /\ args \in [value : Values, max_value : MaxValues, unit : Units,
                       bar_width : BarWidths, color_func : ColorFuncs,
                       invert : BOOLEAN, extra_info : { <<>>, <<"x">> }]

CallGetColor ==
    /\ fn = "get_color"
    /\ ~ret.called
    /\ ret' = Called(Returned(get_color(args.percentage, args.invert)))
    /\ UNCHANGED <<fn, args>>
    /\ UNCHANGED frameVars

CallMakeRow ==
    /\ fn = "make_row"
    /\ ~ret.called
    /\ ret' = Called(Returned(make_row(args.content, args.width)))
    /\ UNCHANGED <<fn, args>>
    /\ UNCHANGED frameVars

CallDrawBarRow ==
    /\ fn = "draw_bar_row"
    /\ ~ret.called
    /\ ret' = Called(draw_bar_row(CallLabel, args.value, args.max_value, args.unit,
                                  CallWidth(args.bar_width), CallLabelWidth,
                                  args.bar_width, args.color_func, args.invert))
    /\ UNCHANGED <<fn, args>>
    /\ UNCHANGED frameVars

CallDrawMemBarRow ==
    /\ fn = "draw_mem_bar_row"
    /\ ~ret.called
    /\ ret' = Called(draw_mem_bar_row(CallLabel, args.value, args.max_value,
                                      CallWidth(args.bar_width), CallLabelWidth,
                                      args.bar_width))
    /\ UNCHANGED <<fn, args>>
    /\ UNCHANGED frameVars

CallDrawPowerBarRow ==
    /\ fn = "draw_power_bar_row"
    /\ ~ret.called
    /\ ret' = Called(draw_power_bar_row(CallLabel, args.value, args.max_value,
                                        CallWidth(args.bar_width), CallLabelWidth,
                                        args.bar_width))
    /\ UNCHANGED <<fn, args>>
    /\ UNCHANGED frameVars

CallDrawGaugeSection ==
    /\ fn = "draw_gauge_section"
    /\ ~ret.called
    /\ ret' = Called(draw_gauge_section(CallLabel, args.value, args.max_value,
                                        args.unit, CallWidth(args.bar_width),
                                        args.bar_width, args.color_func,
                                        args.invert, args.extra_info))
    /\ UNCHANGED <<fn, args>>
    /\ UNCHANGED frameVars

CallNext ==
    \/ CallGetColor
    \/ CallMakeRow
    \/ CallDrawBarRow
    \/ CallDrawMemBarRow
    \/ CallDrawPowerBarRow
    \/ CallDrawGaugeSection

----------------------------------------------------------------------------
(* The program: the main loop, or one direct call of one function *)

Init ==
    \/ /\ FrameInit
       /\ fn = "main"
       /\ args = <<>>
       /\ ret = NotCalled
    \/ /\ CallInit
       /\ gpus = None
       /\ pc = "call"
       /\ sec = 0
       /\ i = 0
       /\ layout = NoLayout
       /\ totals = NoTotals
       /\ out = <<>>
       /\ printed = <<>>

Next == FrameNext \/ CallNext

Spec == Init /\ [][Next]_vars

----------------------------------------------------------------------------
(* Vocabulary of the properties *)

Count(s, c) == Cardinality({ k \in DOMAIN s : s[k] = c })

IsPrefix(a, b) == Len(a) <= Len(b) /\ SubSeq(b, 1, Len(a)) = a

\* Every filled glyph of s stands before every empty glyph of s.
FilledThenEmpty(s) ==
    \A j, k \in DOMAIN s : (s[j] = "FULL" /\ s[k] = "EMPTY") => j < k

Renderers ==
    {"draw_bar_row", "draw_mem_bar_row", "draw_power_bar_row", "draw_gauge_section"}

\* The line of a direct call's result that holds the bar.
BarLine == IF fn = "draw_gauge_section" THEN ret.val[3] ELSE ret.val

\* The position of the colour code in a bar row and in a gauge's bar line.
RowColorPos(label_width) == label_width + 4
\* A gauge's bar line starts with the border and four spaces.
GaugeColorPos == Len(<<"VBAR", " ", " ", " ", " ">>) + 1
ColorAt(s, pos) == SubSeq(s, pos, pos + 4)

\* value / max_value * 100 clamped to 0..100, and 0 when max_value is 0.
ClampedPct(value, max_value) ==
    IF max_value.n = 0 THEN R(0)
    ELSE LET x == Rat(value.n * max_value.d * 100, value.d * max_value.n)
         IN IF x.n < 0 THEN R(0) ELSE IF x.n > 100 * x.d THEN R(100) ELSE x

\* floor(width * percentage / 100) for a percentage in 0..100.
FilledCells(width, percentage) == (width * percentage.n) \div (percentage.d * 100)

\* The sample a printed row shows.
SampleOf(line) == gpus.list[line.dev + 1]

\* The value and the maximum a printed row or gauge draws.
DrawnValue(line) ==
    CASE line.part = "temperature" -> SampleOf(line).temp
      [] line.part = "utilization" -> SampleOf(line).util_gpu
      [] line.part = "memory" -> SampleOf(line).mem_used
      [] line.part = "power" /\ line.kind = "row" -> SampleOf(line).power_draw
      [] line.part = "vram" -> totals.total_mem_used
      [] line.part = "util" -> totals.avg_util
      [] line.part = "power" /\ line.kind = "gauge_bar" -> totals.total_power_draw
      [] line.part = "temp" -> totals.avg_temp

DrawnMax(line) ==
    CASE line.part = "memory" -> SampleOf(line).mem_total
      [] line.part = "power" /\ line.kind = "row" ->
           IF SampleOf(line).power_limit.n > 0 THEN SampleOf(line).power_limit
           ELSE R(100)
      [] line.part = "vram" -> totals.total_mem_total
      [] line.part = "power" /\ line.kind = "gauge_bar" -> totals.total_power_limit
      [] OTHER -> R(100)

\* The polarity of a row or gauge: inverted for temperature.
Inverted(line) == line.part \in {"temperature", "temp"}

\* The printed lines that hold a bar.
BarLines == { k \in DOMAIN printed : printed[k].line.kind \in {"row", "gauge_bar"} }

----------------------------------------------------------------------------
(* C1: for every percentage p in 0..100 and both polarities get_color       *)
(* returns exactly one of the three tiers: non-inverted it is Critical      *)
(* (red) when p > 90, Warning (yellow) when 70 < p <= 90 and Normal (green) *)
(* when p <= 70; inverted it is Critical when p > 80, Warning when          *)
(* 60 < p <= 80 and Normal when p <= 60.                                    *)
C1_ColorTiers ==
    (fn = "get_color" /\ ret.called) =>
        LET n == args.percentage.n
            d == args.percentage.d
            c == ret.val
            hi == IF args.invert THEN 80 ELSE 90
            lo == IF args.invert THEN 60 ELSE 70
        IN /\ ~ret.raised
           /\ c \in {RED, YELLOW, GREEN}
           /\ (c = RED) <=> (n > hi * d)
           /\ (c = YELLOW) <=> (n > lo * d /\ n <= hi * d)
           /\ (c = GREEN) <=> (n <= lo * d)

C1_Witness ==
    /\ fn = "get_color"
    /\ ret.called
    /\ args.invert
    /\ args.percentage = Rat(161, 2)
    /\ ret.val = RED

----------------------------------------------------------------------------
(* C2, as claimed: get_color(90, false) is Normal, get_color(91, false) is  *)
(* Warning, get_color(70, false) is Warning, get_color(71, false) is        *)
(* Warning, get_color(80, true) is Warning and get_color(81, true) is       *)
(* Critical.                                                                *)
C2_BoundariesAsClaimed ==
    (fn = "get_color" /\ ret.called) =>
        /\ (REq(args.percentage, R(90)) /\ ~args.invert) => ret.val = GREEN
        /\ (REq(args.percentage, R(91)) /\ ~args.invert) => ret.val = YELLOW
        /\ (REq(args.percentage, R(70)) /\ ~args.invert) => ret.val = YELLOW
        /\ (REq(args.percentage, R(71)) /\ ~args.invert) => ret.val = YELLOW
        /\ (REq(args.percentage, R(80)) /\ args.invert) => ret.val = YELLOW
        /\ (REq(args.percentage, R(81)) /\ args.invert) => ret.val = RED

(* C2, amended: get_color(90, false) is Warning, get_color(91, false) is    *)
(* Critical, get_color(70, false) is Normal, get_color(71, false) is        *)
(* Warning, get_color(80, true) is Warning and get_color(81, true) is       *)
(* Critical.                                                                *)
C2_Boundaries ==
    (fn = "get_color" /\ ret.called) =>
        /\ (REq(args.percentage, R(90)) /\ ~args.invert) => ret.val = YELLOW
        /\ (REq(args.percentage, R(91)) /\ ~args.invert) => ret.val = RED
        /\ (REq(args.percentage, R(70)) /\ ~args.invert) => ret.val = GREEN
        /\ (REq(args.percentage, R(71)) /\ ~args.invert) => ret.val = YELLOW
        /\ (REq(args.percentage, R(80)) /\ args.invert) => ret.val = YELLOW
        /\ (REq(args.percentage, R(81)) /\ args.invert) => ret.val = RED

C2_Witness ==
    /\ fn = "get_color"
    /\ ret.called
    /\ ~args.invert
    /\ REq(args.percentage, R(90))
    /\ ret.val = YELLOW

----------------------------------------------------------------------------
(* C3, as claimed: for every content and every width the row make_row       *)
(* returns has visible length exactly width.                                *)
C3_RowWidthAsClaimed ==
    (fn = "make_row" /\ ret.called) => VisibleLen(ret.val) = args.width

(* C3, amended: the row make_row returns has visible length exactly width   *)
(* whenever the visible length of the content is at most width - 2, and the *)
(* visible length of the content plus the two borders otherwise; in both    *)
(* cases it is the same whether the content carries 0, 1 or several escape  *)
(* sequences of differing lengths around the same visible text.             *)
C3_RowWidth ==
    (fn = "make_row" /\ ret.called) =>
        LET v == VisibleLen(args.content)
        IN /\ ~ret.raised
           /\ (v + 2 <= args.width) => VisibleLen(ret.val) = args.width
           /\ (v + 2 > args.width) => VisibleLen(ret.val) = v + 2
           /\ args.content \in VisibleTexts =>
                \A pre \in Codes, post \in Codes :
                    VisibleLen(make_row(pre \o args.content \o post, args.width))
                        = VisibleLen(ret.val)

C3_Witness ==
    /\ fn = "make_row"
    /\ ret.called
    /\ args.content = RED \o <<"a", "b">> \o RESET
    /\ args.width = MaxRowWidth
    /\ VisibleLen(ret.val) = MaxRowWidth
    /\ Len(ret.val) = MaxRowWidth + Len(RED) + Len(RESET)

----------------------------------------------------------------------------
(* C4: for every value (negative values and values above the maximum        *)
(* included) the bar of draw_bar_row, draw_mem_bar_row, draw_power_bar_row  *)
(* and draw_gauge_section uses the percentage value/maxValue*100 clamped to *)
(* 0..100, has filledCells = floor(barWidth * percentage / 100) with        *)
(* 0 <= filledCells <= barWidth, and is filledCells filled glyphs followed  *)
(* by barWidth - filledCells empty glyphs: barWidth glyphs in all.          *)
C4_BarGlyphs ==
    (fn \in Renderers /\ ret.called /\ ~ret.raised) =>
        LET filled == FilledCells(args.bar_width,
                                  ClampedPct(args.value, args.max_value))
        IN /\ 0 <= filled /\ filled <= args.bar_width
           /\ Count(BarLine, "FULL") = filled
           /\ Count(BarLine, "EMPTY") = args.bar_width - filled
           /\ FilledThenEmpty(BarLine)

----------------------------------------------------------------------------
(* C5: whenever the maximum is 0, for every value, each of draw_bar_row,    *)
(* draw_mem_bar_row, draw_power_bar_row and draw_gauge_section raises no    *)
(* division error, uses percentage 0 and returns barWidth empty glyphs and  *)
(* no filled glyph; so do the Total VRAM and Total Power gauges of a frame  *)
(* whose summed total or summed limit is 0.                                 *)
C5_ZeroMaximum ==
    /\ (fn \in Renderers /\ ret.called /\ args.max_value.n = 0) =>
          /\ ~ret.raised
          /\ Count(BarLine, "FULL") = 0
          /\ Count(BarLine, "EMPTY") = args.bar_width
          /\ (fn = "draw_gauge_section" /\ args.color_func = "get_color") =>
                ColorAt(BarLine, GaugeColorPos) = GREEN
          /\ (fn \in {"draw_mem_bar_row", "draw_power_bar_row"}) =>
                ColorAt(BarLine, RowColorPos(CallLabelWidth)) = GREEN
    /\ (fn = "main" /\ totals.computed) => pc # "raised"
    /\ \A k \in BarLines :
          (/\ printed[k].line.kind = "gauge_bar"
           /\ printed[k].line.part \in {"vram", "power"}
           /\ DrawnMax(printed[k].line).n = 0) =>
              /\ Count(printed[k].text, "FULL") = 0
              /\ Count(printed[k].text, "EMPTY") = layout.gauge_width
              /\ ColorAt(printed[k].text, GaugeColorPos) = GREEN

C5_Witness ==
    /\ fn = "draw_power_bar_row"
    /\ ret.called
    /\ args.max_value = R(0)
    /\ args.value = R(45)
    /\ args.bar_width = MaxBarWidth
    /\ Count(ret.val, "EMPTY") = MaxBarWidth

----------------------------------------------------------------------------
(* C6: every per-device bar row of the Temperature, Utilization, Memory and *)
(* Power sections and every one of the four gauges is coloured with the     *)
(* tier get_color assigns to its clamped percentage, with inverted polarity *)
(* for temperature and non-inverted polarity for the others.                *)
C6_ColouredByPolicy ==
    \A k \in BarLines :
        LET line == printed[k].line
            pos == IF line.kind = "row" THEN RowColorPos(layout.label_width)
                   ELSE GaugeColorPos
        IN ColorAt(printed[k].text, pos)
             = get_color(ClampedPct(DrawnValue(line), DrawnMax(line)), Inverted(line))

----------------------------------------------------------------------------
(* The frame the claims describe, as summaries of its lines *)

BannerLines == <<Line("banner", "", -1), Line("title", "", -1), Line("banner", "", -1)>>

ClosingLines ==
    <<Line("blank", "", -1), Line("banner", "", -1), Line("hint", "", -1),
      Line("banner", "", -1)>>

\* A per-device section over n samples: header, one row per sample in sample
\* order, footer.
SectionLines(name, n) ==
    <<Line("blank", "", -1), Line("header", name, -1)>>
    \o [k \in 1..n |-> Line("row", name, k - 1)]
    \o <<Line("footer", name, -1)>>

GaugeLines(name) ==
    <<Line("gauge_title", name, -1), Line("gauge_top", name, -1),
      Line("gauge_bar", name, -1), Line("gauge_bottom", name, -1),
      Line("spacer", "totals", -1)>>

TotalsLines ==
    <<Line("blank", "", -1), Line("header", "totals", -1), Line("spacer", "totals", -1)>>
    \o GaugeLines("vram") \o GaugeLines("util") \o GaugeLines("power")
    \o GaugeLines("temp") \o <<Line("footer", "totals", -1)>>

FullFrame(n) ==
    BannerLines \o SectionLines("temperature", n) \o SectionLines("utilization", n)
    \o SectionLines("memory", n) \o SectionLines("power", n) \o TotalsLines
    \o ClosingLines

NoDevicesFrame ==
    BannerLines
    \o <<Line("blank", "", -1), Line("notice", "", -1), Line("blank", "", -1),
         Line("banner", "", -1)>>

\* draw_ui is running or has returned.
InDrawUi == pc \in {"check", "section", "rows", "totals", "gauges", "done"}

----------------------------------------------------------------------------
(* C7: for every non-empty list of n samples draw_ui prints, in this order, *)
(* the banner, the Temperature, Utilization, Memory and Power sections, the *)
(* Totals section and the footer banner; each per-device section holds      *)
(* exactly n bar rows, one per sample in sample order, between its header   *)
(* and its footer, and the Totals section holds the four gauges in the      *)
(* order Total VRAM, Average Utilization, Total Power, Average Temperature. *)
C7_FrameOrder ==
    (fn = "main" /\ ~gpus.none /\ Len(gpus.list) > 0 /\ pc # "idle" /\ pc # "draw_ui") =>
        /\ InDrawUi
        /\ IsPrefix(out, FullFrame(Len(gpus.list)))
        /\ pc = "done" => out = FullFrame(Len(gpus.list))
        /\ \A k \in DOMAIN printed :
              printed[k].line.kind = "row" =>
                  /\ SampleOf(printed[k].line).index = printed[k].line.dev
                  /\ IsPrefix(<<"VBAR", " ", "G", "P", "U", " ">>
                              \o Digits(printed[k].line.dev) \o <<":", " ">>,
                              printed[k].text)

C7_Witness ==
    /\ fn = "main"
    /\ pc = "done"
    /\ Len(gpus.list) = 2
    /\ gpus.list[1].temp = R(92)
    /\ gpus.list[2].temp = R(45)
    /\ out = FullFrame(2)

----------------------------------------------------------------------------
(* C8: when the sample list is empty or None draw_ui prints only the        *)
(* banner, one notice line and the closing banner: no section header, no    *)
(* section footer, no bar row and no gauge, and it computes no aggregate,   *)
(* so that nothing is divided by the number of samples.                     *)
C8_NoDevices ==
    (fn = "main" /\ (gpus.none \/ Len(gpus.list) = 0) /\ pc # "idle" /\ pc # "draw_ui") =>
        /\ pc \in {"check", "done"}
        /\ totals = NoTotals
        /\ IsPrefix(out, NoDevicesFrame)
        /\ pc = "done" => out = NoDevicesFrame
        /\ \A k \in DOMAIN out :
              out[k].kind \in {"banner", "title", "blank", "notice"}
        /\ Cardinality({ k \in DOMAIN out : out[k].kind = "notice" }) <= 1

C8_Witness ==
    /\ fn = "main"
    /\ gpus = None
    /\ pc = "done"
    /\ out = NoDevicesFrame
    /\ totals = NoTotals

----------------------------------------------------------------------------
(* C9: for every device label 'GPU <index>: <name>' and every label width   *)
(* of the layout, the label placed in a bar row has visible length at most  *)
(* labelWidth: a label of length <= labelWidth is left unchanged, a longer  *)
(* one is replaced by its first labelWidth-2 characters followed by '..',   *)
(* labelWidth characters in all; so in all four per-device sections.        *)
C9_LabelTruncation ==
    \A k \in DOMAIN printed :
        printed[k].line.kind = "row" =>
            LET text == printed[k].text
                gpu == SampleOf(printed[k].line)
                full == <<"G", "P", "U", " ">> \o Digits(gpu.index) \o <<":", " ">>
                        \o gpu.name
                lw == layout.label_width
                field == SubSeq(text, 3, lw + 2)
            IN /\ text[1] = "VBAR" /\ text[2] = " "
               /\ text[lw + 3] = " " /\ text[lw + 4] = "ESC"
               /\ Len(full) <= lw => field = full \o Rep(" ", lw - Len(full))
               /\ Len(full) > lw => field = SubSeq(full, 1, lw - 2) \o <<".", ".">>

C9_Witness ==
    /\ pc = "rows"
    /\ sec = 4
    /\ Len(printed) = 1
    /\ printed[1].line = Line("row", "power", 1)
    /\ Len(label_of(gpus.list[2])) = layout.label_width + 1
    /\ SubSeq(printed[1].text, layout.label_width + 1, layout.label_width + 2)
         = <<".", ".">>

----------------------------------------------------------------------------
\* The formatted value of a row fits its field.
ValueFits(line) ==
    LET gpu == SampleOf(line)
    IN CASE line.part = "temperature" -> Len(FormatFixed(gpu.temp, 1)) + 2 <= 10
         [] line.part = "utilization" -> Len(FormatFixed(gpu.util_gpu, 1)) + 1 <= 10
         [] line.part = "memory" ->
              Len(format_memory(gpu.mem_used)) + 1 + Len(format_memory(gpu.mem_total)) <= 16
         [] line.part = "power" ->
              Len(FormatFixed(gpu.power_draw, 0)) + 3
                + Len(FormatFixed(DrawnMax(line), 0)) <= 16

(* C10: for every terminal width and every device name length the layout of *)
(* draw_ui (frameWidth clamped to 80..160) satisfies labelWidth + barWidth  *)
(* + 26 = frameWidth, so that the floor of 20 on barWidth never applies,    *)
(* and every section header, section footer and per-device bar row has      *)
(* visible length exactly frameWidth, provided the formatted value fits its *)
(* field (10 characters for temperature and utilization rows, 16 for memory *)
(* and power rows).                                                         *)
C10_Aligned ==
    (fn = "main" /\ InDrawUi) =>
        /\ MIN_WIDTH <= layout.width /\ layout.width <= PREFERRED_WIDTH
        /\ layout.label_width + layout.bar_width + 26 = layout.width
        /\ layout.bar_width > 20
        /\ \A k \in DOMAIN printed :
              /\ printed[k].line.kind \in {"header", "footer"} =>
                    VisibleLen(printed[k].text) = layout.width
              /\ (printed[k].line.kind = "row" /\ ValueFits(printed[k].line)) =>
                    VisibleLen(printed[k].text) = layout.width

====
